---- MODULE Spec2Model ----
(***************************************************************************)
(* Astrovault DeFi dashboard: the yield classifier, the meme-market        *)
(* scanner and the ranking aggregator of defi_scanner.py, as state         *)
(* machines over the feed responses they consume, and the mock wallets and *)
(* positions of wallet_utils.py.                                           *)
(*                                                                         *)
(* Units.  Python floats are modelled by scaled integers:                  *)
(*   apy, change24   thousandths of a percent   (5.0 %  = 5000)            *)
(*   apy_str         hundredths of a percent    ("5.12%" = 512)            *)
(*   ror             1/10000 of a percent       (20.0   = 200000)          *)
(*   tvl, liq, vol   whole US dollars                                      *)
(* Feed values are the values of standard JSON: numbers are finite (no     *)
(* NaN), and the numbers drawn have no tie in the third decimal of apy.    *)
(* Strings that the code lower-cases are sequences of one-character        *)
(* strings, so that lower() is computed and not assumed.                   *)
(***************************************************************************)
EXTENDS Integers, Sequences, FiniteSets, TLC

VARIABLES
    scoreCall,      \* the last direct call of risk_score / calc_ror and its result
    yieldFeed,      \* what GET https://yields.llama.fi/pools answers
    opportunities,  \* app.py: opportunities = classify_yield_opportunities()
    top_picks,      \* app.py: top_picks = get_top_picks(all_opportunities)
    memeFeed,       \* what GET dexscreener search?q=<term> answers, per term
    meme_coins,     \* app.py: meme_coins = get_meme_coins()
    previous,       \* what classify_yield_opportunities returned the run before
    wallets,        \* st.session_state.*_wallet, by wallet_type
    positions,      \* st.session_state.positions
    walletCall      \* the last call of the wallet module and its result

walletVars == <<wallets, positions, walletCall>>

vars == <<scoreCall, yieldFeed, opportunities, top_picks, memeFeed, meme_coins, previous, walletVars>>

(***************************************************************************)
(* Strings and JSON values                                                 *)
(***************************************************************************)
\* list(seq): the sequence with its elements computed once
List(seq) == SubSeq(seq, 1, Len(seq))

Uppers ==
    <<"A", "B", "C", "D", "E", "F", "G", "H", "I", "J", "K", "L", "M",
      "N", "O", "P", "Q", "R", "S", "T", "U", "V", "W", "X", "Y", "Z">>
Lowers ==
    <<"a", "b", "c", "d", "e", "f", "g", "h", "i", "j", "k", "l", "m",
      "n", "o", "p", "q", "r", "s", "t", "u", "v", "w", "x", "y", "z">>

LowerOf == [c \in {Uppers[k] : k \in 1..Len(Uppers)} |-> Lowers[CHOOSE k \in 1..Len(Uppers) : Uppers[k] = c]]

LowerChar(c) == IF c \in DOMAIN LowerOf THEN LowerOf[c] ELSE c

\* str.lower(), character by character
Lower(s) == List([i \in 1..Len(s) |-> LowerChar(s[i])])

\* A JSON value as Python sees it after res.json(): t is its type.
\*   "missing" (key absent), "null" (None), "bool", "num", "str", "obj" (dict), "list"
JMissing == [t |-> "missing", n |-> 0, s |-> <<>>]
JNull == [t |-> "null", n |-> 0, s |-> <<>>]
JNum(k) == [t |-> "num", n |-> k, s |-> <<>>]
JBool(b) == [t |-> "bool", n |-> IF b THEN 1 ELSE 0, s |-> <<>>]
JStr(str) == [t |-> "str", n |-> 0, s |-> str]


\* Python truthiness of a JSON value: None, False, 0, "" and a missing key's
\* falsy default are falsy
Truthy(v) ==
    CASE v.t \in {"missing", "null"} -> FALSE
      [] v.t \in {"bool", "num"} -> v.n # 0
      [] v.t = "str" -> v.s # <<>>
      [] OTHER -> TRUE

\* isinstance(v, (int, float)): bool is a subclass of int
IsNumeric(v) == v.t \in {"num", "bool"}

\* float(v) of a numeric value; unit is what 1.0 is in the field's unit
\* (float(True) is 1.0)
FloatOf(v, unit) == IF v.t = "bool" THEN v.n * unit ELSE v.n

(***************************************************************************)
(* CONFIG (defi_scanner.py lines 13-49)                                    *)
(***************************************************************************)
MIN_APY == 5000
MIN_TVL == 500000
MIN_LIQUIDITY == 100000

beefy == <<"b", "e", "e", "f", "y">>
yearn == <<"y", "e", "a", "r", "n">>
radiant == <<"r", "a", "d", "i", "a", "n", "t">>
aave == <<"a", "a", "v", "e">>
aave_v3 == <<"a", "a", "v", "e", "-", "v", "3">>
venus == <<"v", "e", "n", "u", "s">>
morpho == <<"m", "o", "r", "p", "h", "o">>
pancakeswap == <<"p", "a", "n", "c", "a", "k", "e", "s", "w", "a", "p">>
raydium == <<"r", "a", "y", "d", "i", "u", "m">>
lido == <<"l", "i", "d", "o">>
marinade == <<"m", "a", "r", "i", "n", "a", "d", "e">>
eigenlayer == <<"e", "i", "g", "e", "n", "l", "a", "y", "e", "r">>
kamino == <<"k", "a", "m", "i", "n", "o">>
krystal == <<"k", "r", "y", "s", "t", "a", "l">>
turbo == <<"t", "u", "r", "b", "o">>

FOCUS_PROTOCOLS ==
    {beefy, yearn, radiant, aave, aave_v3, venus, morpho, pancakeswap, raydium,
     lido, marinade, eigenlayer, kamino, krystal, turbo}

arbitrum == <<"a", "r", "b", "i", "t", "r", "u", "m">>
optimism == <<"o", "p", "t", "i", "m", "i", "s", "m">>
zksync == <<"z", "k", "s", "y", "n", "c">>
base == <<"b", "a", "s", "e">>
scroll == <<"s", "c", "r", "o", "l", "l">>
linea == <<"l", "i", "n", "e", "a">>

LAYER2_CHAINS == {arbitrum, optimism, zksync, base, scroll, linea}

OPPORTUNITY_TYPE_MAP(pj) ==
    CASE pj \in {beefy, yearn, kamino, krystal} -> "Vault / Auto-compounding"
      [] pj \in {lido, marinade, eigenlayer} -> "Staking / Restaking"
      [] pj \in {turbo, raydium, pancakeswap} -> "Yield Farming"
      [] pj \in {aave, aave_v3, venus, morpho, radiant} -> "Lending / Borrowing"
      [] OTHER -> "Unknown"

(***************************************************************************)
(* Scoring primitives                                                      *)
(***************************************************************************)
\* risk_score with the focus test dropped
risk_score_no_focus(apy, tvl, project) ==
    IF tvl > 50000000 /\ apy < 15000 THEN "Low"
    ELSE IF 5000000 <= tvl /\ tvl <= 50000000 /\ 15000 <= apy /\ apy <= 50000 THEN "Medium"
    ELSE IF tvl < 5000000 \/ apy > 50000 THEN "High"
    ELSE "Medium"

\* risk_score whose High rule needs both a small tvl and a high apy
risk_score_high_needs_both(apy, tvl, project) ==
    LET pj == Lower(project) IN
    IF pj \in FOCUS_PROTOCOLS THEN "Low"
    ELSE IF tvl > 50000000 /\ apy < 15000 THEN "Low"
    ELSE IF 5000000 <= tvl /\ tvl <= 50000000 /\ 15000 <= apy /\ apy <= 50000 THEN "Medium"
    ELSE IF tvl < 5000000 /\ apy > 50000 THEN "High"
    ELSE "Medium"

\* def risk_score(apy, tvl, project): first matching rule wins
risk_score(apy, tvl, project) ==
    LET pj == Lower(project) IN
    IF pj \in FOCUS_PROTOCOLS THEN "Low"
    ELSE IF tvl > 50000000 /\ apy < 15000 THEN "Low"
    ELSE IF 5000000 <= tvl /\ tvl <= 50000000 /\ 15000 <= apy /\ apy <= 50000 THEN "Medium"
    ELSE IF tvl < 5000000 \/ apy > 50000 THEN "High"
    ELSE "Medium"

\* risk_factor.get(score, 0.5), in tenths
RiskFactor(score) ==
    CASE score = "Low" -> 10
      [] score = "Medium" -> 6
      [] score = "High" -> 3
      [] OTHER -> 5

\* def calc_ror(apy, score): apy * risk_factor, apy in 1/1000 %, ror in 1/10000 %
calc_ror(apy, score) == apy * RiskFactor(score)

(***************************************************************************)
(* Sequences                                                               *)
(***************************************************************************)
\* seq[:n]
Take(seq, n) == SubSeq(seq, 1, IF Len(seq) < n THEN Len(seq) ELSE n)

\* sorted(seq, key=..., reverse=True) without its stability: equal keys come
\* out in reverse input order
SortedDescUnstable(seq, keys) ==
    LET n == Len(seq)
        rank == List([i \in 1..n |->
                    Cardinality({j \in 1..n : keys[j] > keys[i] \/ (keys[j] = keys[i] /\ j > i)}) + 1])
    IN  List([p \in 1..n |-> seq[CHOOSE i \in 1..n : rank[i] = p]])

\* sorted(seq, reverse=True) that sorts ascending instead
SortedAsc(seq, keys) ==
    LET n == Len(seq)
        rank == List([i \in 1..n |->
                    Cardinality({j \in 1..n : keys[j] < keys[i] \/ (keys[j] = keys[i] /\ j < i)}) + 1])
    IN  List([p \in 1..n |-> seq[CHOOSE i \in 1..n : rank[i] = p]])

\* sorted(seq, key=..., reverse=True): keys[i] is the key of seq[i].  Python's
\* sort is stable, also under reverse=True: an element comes after the elements
\* of greater key and after the earlier elements of equal key.
SortedDesc(seq, keys) ==
    LET n == Len(seq)
        rank == List([i \in 1..n |->
                    Cardinality({j \in 1..n : keys[j] > keys[i] \/ (keys[j] = keys[i] /\ j < i)}) + 1])
    IN  List([p \in 1..n |-> seq[CHOOSE i \in 1..n : rank[i] = p]])

(***************************************************************************)
(* YieldEntry                                                              *)
(***************************************************************************)
SORT_MODE == "ror"

\* f"{apy:.2f}%": apy rounded to two decimals (ties to even), in hundredths
ApyStr(apy) ==
    LET q == apy \div 10
        r == apy % 10
    IN  IF r > 5 \/ (r = 5 /\ q % 2 = 1) THEN q + 1 ELSE q

\* f"${tvl:,.0f}": whole dollars (the model's tvl values are whole dollars)
TvlStr(tvl) == tvl

\* YieldEntry.apy_value(): float(apy_str.replace("%", "")), in 1/1000 %
apy_value(entry) == entry.apy_str * 10

\* YieldEntry.tvl_value()
tvl_value(entry) == entry.tvl_str

\* def sort_key(entry)
sort_key(entry) ==
    IF SORT_MODE \in {"apy", "apr"} THEN apy_value(entry)
    ELSE IF SORT_MODE = "tvl" THEN tvl_value(entry)
    ELSE entry.ror

\* str(raw.get(key, default) or default) for a key whose value is a string,
\* null or absent
StrOr(v, default) == IF Truthy(v) /\ v.t = "str" THEN v.s ELSE default

NA == <<"N", "/", "A">>

(***************************************************************************)
(* classify_yield_opportunities                                            *)
(***************************************************************************)
\* raw.get("tvlUsd", 0)
TvlVal(raw) == IF raw.tvlUsd.t = "missing" THEN JNum(0) ELSE raw.tvlUsd

\* the filter without the tvl threshold
RetainedNoTvl(raw) ==
    /\ raw.t = "obj"
    /\ IsNumeric(raw.apy) /\ IsNumeric(TvlVal(raw))
    /\ ~(FloatOf(raw.apy, 1000) < MIN_APY)

\* lines 139-156: the record passes every `continue`
Retained(raw) ==
    /\ raw.t = "obj"
    /\ IsNumeric(raw.apy) /\ IsNumeric(TvlVal(raw))
    /\ ~(FloatOf(raw.apy, 1000) < MIN_APY \/ FloatOf(TvlVal(raw), 1) < MIN_TVL)

\* the entry with its ror computed from the displayed (rounded) apy
MakeEntryRounded(raw, i) ==
    LET project == StrOr(raw.project, <<>>)
        apy == FloatOf(raw.apy, 1000)
        tvl == FloatOf(TvlVal(raw), 1)
        score == risk_score(apy, tvl, project)
    IN  [project |-> project,
         chain |-> Lower(StrOr(raw.chain, NA)),
         apy_str |-> ApyStr(apy),
         symbol |-> StrOr(raw.symbol, NA),
         tvl_str |-> TvlStr(tvl),
         risk |-> score,
         pool_id |-> StrOr(raw.pool, <<>>),
         ror |-> calc_ror(ApyStr(apy) * 10, score),
         type |-> OPPORTUNITY_TYPE_MAP(Lower(project)),
         src |-> i]

\* lines 142-172: the YieldEntry of a retained record; src (not a field of the
\* dataclass) is the record's position in the feed, kept to name the record an
\* entry comes from
MakeEntry(raw, i) ==
    LET project == StrOr(raw.project, <<>>)
        apy == FloatOf(raw.apy, 1000)
        tvl == FloatOf(TvlVal(raw), 1)
        score == risk_score(apy, tvl, project)
    IN  [project |-> project,
         chain |-> Lower(StrOr(raw.chain, NA)),
         apy_str |-> ApyStr(apy),
         symbol |-> StrOr(raw.symbol, NA),
         tvl_str |-> TvlStr(tvl),
         risk |-> score,
         pool_id |-> StrOr(raw.pool, <<>>),
         ror |-> calc_ror(apy, score),
         type |-> OPPORTUNITY_TYPE_MAP(Lower(project)),
         src |-> i]

\* the entries of the retained records, in feed order
Entries(pools) ==
    LET tagged == List([i \in 1..Len(pools) |-> [raw |-> pools[i], i |-> i]])
        kept == SelectSeq(tagged, LAMBDA x : Retained(x.raw))
    IN  List([k \in 1..Len(kept) |-> MakeEntry(kept[k].raw, kept[k].i)])

\* lines 174-181: the conditions under which an entry is appended to a bucket
InFocus(e) == Lower(e.project) \in FOCUS_PROTOCOLS
\* line 176 without the test that keeps focus protocols out
InLongTermAnyProject(e) == e.risk = "Low"

InLongTerm(e) == e.risk = "Low" /\ Lower(e.project) \notin FOCUS_PROTOCOLS
InShortTerm(e) == ~InLongTerm(e) /\ e.risk # "Low" /\ Lower(e.project) \notin FOCUS_PROTOCOLS
InLayer2(e) == e.chain \in LAYER2_CHAINS

Keys(seq) == List([i \in 1..Len(seq) |-> sort_key(seq[i])])

\* a bucket that is sorted but not cut to 10
RankedUncut(seq) == SortedDesc(seq, Keys(seq))

\* lines 183-186: sorted(bucket, key=sort_key, reverse=True)[:10]
Ranked(seq) == Take(SortedDesc(seq, Keys(seq)), 10)

EmptyBuckets == [long_term |-> <<>>, short_term |-> <<>>, focus |-> <<>>, layer2 |-> <<>>]

NoResult == [status |-> "none", value |-> EmptyBuckets]
Raised == [status |-> "raised", value |-> EmptyBuckets]
Returned(v) == [status |-> "returned", value |-> v]

\* lines 133-188: the four buckets of a list of pools
Buckets(pools) ==
    LET es == Entries(pools) IN
    [long_term |-> Ranked(SelectSeq(es, InLongTerm)),
     short_term |-> Ranked(SelectSeq(es, InShortTerm)),
     focus |-> Ranked(SelectSeq(es, InFocus)),
     layer2 |-> Ranked(SelectSeq(es, InLayer2))]

FailureKinds == {"network", "timeout", "status", "badjson"}

\* def safe_request(url): the parsed body, or {"error": ...} for any exception
\* of requests.get, raise_for_status or res.json.  A response is
\*   kind   a FailureKinds member, or the JSON type of the body:
\*          "object", "array", "string", "scalar" (number, true, false, null)
\*   error  the body has the key "error" (object), the element "error" (array)
\*          or the substring "error" (string)
\*   data   the value under "data" / "pairs": "missing", "list" or "other"
\*   items  the elements of the list under "data" (yield feed) or under
\*          "pairs" (pair feed)
safe_request(resp) ==
    IF resp.kind \in FailureKinds
    THEN [kind |-> "object", error |-> TRUE, data |-> "missing", items |-> <<>>]
    ELSE resp

\* classify_yield_opportunities whose result lists outlive the call: a run
\* appends to the buckets the run before returned
classify_yield_opportunities_carried(resp) ==
    LET data == safe_request(resp)
        es == Entries(IF data.data = "list" THEN data.items ELSE <<>>)
        kept == opportunities.value
    IN  IF data.kind # "object" THEN Raised
        ELSE IF data.error THEN Returned(kept)
        ELSE Returned([long_term |-> Ranked(kept.long_term \o SelectSeq(es, InLongTerm)),
                       short_term |-> Ranked(kept.short_term \o SelectSeq(es, InShortTerm)),
                       focus |-> Ranked(kept.focus \o SelectSeq(es, InFocus)),
                       layer2 |-> Ranked(kept.layer2 \o SelectSeq(es, InLayer2))])

\* def classify_yield_opportunities(): the call's outcome for a response.
\* `"error" in data` raises TypeError on a scalar; data['error'] raises
\* TypeError and data.get raises AttributeError on an array or a string.
classify_yield_opportunities(resp) ==
    LET data == safe_request(resp) IN
    IF data.kind = "scalar" THEN Raised
    ELSE IF data.error
         THEN IF data.kind = "object" THEN Returned(EmptyBuckets) ELSE Raised
    ELSE IF data.kind # "object" THEN Raised
    ELSE Returned(Buckets(IF data.data = "list" THEN data.items ELSE <<>>))

\* get_top_picks that keeps six
get_top_picks_six(all_opportunities) ==
    Take(SortedDesc(all_opportunities,
                    List([i \in 1..Len(all_opportunities) |-> all_opportunities[i].ror])), 6)

\* def get_top_picks(all_opportunities)
get_top_picks(all_opportunities) ==
    Take(SortedDesc(all_opportunities,
                    List([i \in 1..Len(all_opportunities) |-> all_opportunities[i].ror])), 5)

\* app.py lines 475-478: all_opportunities.extend(category) over the dict's
\* values, in insertion order
Flatten(b) == b.long_term \o b.short_term \o b.focus \o b.layer2

(***************************************************************************)
(* Direct calls of the scoring primitives                                  *)
(***************************************************************************)
NoScoreCall == [called |-> FALSE, apy |-> 0, tvl |-> 0, project |-> <<>>, score |-> "", ror |-> 0]

ScoreApys == {0, 4900, 5000, 14999, 15000, 20000, 50000, 50001, 60000}
ScoreTvls == {0, 499999, 4999999, 5000000, 50000000, 50000001, 60000000}
foo == <<"f", "o", "o">>
ScoreProjects == {beefy, <<"B", "e", "e", "f", "y">>, <<"A", "A", "V", "E", "-", "V", "3">>, foo, <<>>}

\* score = risk_score(apy, tvl, project); ror = calc_ror(apy, score)
CallRiskScore(apy, tvl, project) ==
    /\ scoreCall' = [called |-> TRUE, apy |-> apy, tvl |-> tvl, project |-> project,
                     score |-> risk_score(apy, tvl, project),
                     ror |-> calc_ror(apy, risk_score(apy, tvl, project))]
    /\ UNCHANGED <<yieldFeed, opportunities, top_picks, memeFeed, meme_coins, previous, walletVars>>

(***************************************************************************)
(* The yield feed and one refresh of the dashboard                         *)
(***************************************************************************)
Pool(apy, tvl, project, chain) ==
    [t |-> "obj", apy |-> apy, tvlUsd |-> tvl, project |-> project, chain |-> chain,
     symbol |-> JStr(<<"X">>), pool |-> JStr(<<"p", "1">>)]

\* an element of the list under "data" that is not a JSON object
NonDict ==
    [t |-> "str", apy |-> JMissing, tvlUsd |-> JMissing, project |-> JMissing,
     chain |-> JMissing, symbol |-> JMissing, pool |-> JMissing]

eth == <<"e", "t", "h">>

\* the records of the varied feed
YieldPools ==
    {NonDict,
     Pool(JNum(20000), JNum(60000000), JStr(beefy), JStr(eth)),
     Pool(JNum(4900), JNum(1000000), JStr(foo), JMissing),
     Pool(JNum(5123), JNum(500000), JStr(foo), JStr(<<"A", "r", "b", "i", "t", "r", "u", "m">>)),
     Pool(JNull, JNum(1000000), JStr(foo), JStr(eth)),
     Pool(JMissing, JNum(1000000), JStr(foo), JStr(eth)),
     Pool(JStr(<<"1", "2">>), JNum(1000000), JStr(foo), JStr(eth)),
     Pool(JBool(TRUE), JNum(1000000), JStr(foo), JStr(eth)),
     Pool(JNum(10000), JMissing, JStr(foo), JStr(eth)),
     Pool(JNum(10000), JStr(<<"1", "2">>), JStr(foo), JStr(eth)),
     Pool(JNum(10000), JNum(499999), JStr(foo), JStr(eth)),
     Pool(JNum(60000), JNum(1000000), JNull, JStr(base)),
     Pool(JNum(10000), JNum(60000000), JStr(foo), JNull)}

\* the records of the long feed
BulkPools ==
    {Pool(JNum(10000), JNum(60000000), JStr(foo), JStr(eth)),
     Pool(JNum(20000), JNum(60000000), JStr(beefy), JStr(arbitrum)),
     Pool(JNum(60000), JNum(1000000), JStr(foo), JStr(base))}

MaxVaried == 2
MaxPools == 12
MaxRuns == 2

\* the number of maximal runs of equal records in a feed
Runs(seq) == Cardinality({i \in 1..Len(seq) : i = 1 \/ seq[i] # seq[i - 1]})

OkFeed == [kind |-> "object", error |-> FALSE, data |-> "list", items |-> <<>>]

FeedShapes ==
    [kind : FailureKinds, error : {FALSE}, data : {"missing"}, items : {<<>>}]
    \cup [kind : {"object"}, error : BOOLEAN, data : {"missing", "list", "other"}, items : {<<>>}]
    \cup [kind : {"array", "string"}, error : BOOLEAN, data : {"missing"}, items : {<<>>}]
    \cup [kind : {"scalar"}, error : {FALSE}, data : {"missing"}, items : {<<>>}]

\* the feed answers with another status or body shape
FeedSetShape(shape) ==
    /\ opportunities.status = "none"
    /\ yieldFeed.items = <<>>
    /\ yieldFeed' = shape
    /\ UNCHANGED <<scoreCall, opportunities, top_picks, memeFeed, meme_coins, previous, walletVars>>

\* the feed lists one more pool (a feed of at most maxLen pools in at most
\* maxRuns runs)
FeedAppend(raw, maxLen, maxRuns) ==
    /\ opportunities.status = "none"
    /\ yieldFeed.kind = "object" /\ yieldFeed.data = "list"
    /\ Len(yieldFeed.items) < maxLen
    /\ Runs(Append(yieldFeed.items, raw)) <= maxRuns
    /\ yieldFeed' = [yieldFeed EXCEPT !.items = Append(@, raw)]
    /\ UNCHANGED <<scoreCall, opportunities, top_picks, memeFeed, meme_coins, previous, walletVars>>

NoPicks == [status |-> "none", value |-> <<>>]

\* app.py line 472: opportunities = classify_yield_opportunities()
ClassifyYield ==
    /\ opportunities' = classify_yield_opportunities(yieldFeed)
    /\ top_picks' = NoPicks
    /\ previous' = opportunities
    /\ UNCHANGED <<scoreCall, yieldFeed, memeFeed, meme_coins, walletVars>>

\* app.py lines 475-479: top_picks = get_top_picks(all_opportunities)
TopPicks ==
    /\ opportunities.status = "returned"
    /\ top_picks' = [status |-> "returned", value |-> get_top_picks(Flatten(opportunities.value))]
    /\ UNCHANGED <<scoreCall, yieldFeed, opportunities, memeFeed, meme_coins, previous, walletVars>>

(***************************************************************************)
(* get_meme_coins                                                          *)
(***************************************************************************)
queries == <<"pepe", "doge", "shiba", "floki", "bonk">>

sol == <<"s", "o", "l">>
bsc == <<"b", "s", "c">>
sui == <<"s", "u", "i">>
tao == <<"t", "a", "o">>

MEME_CHAINS == {sui, tao, eth, bsc, sol, base, optimism, arbitrum}

DigitChars == <<"0", "1", "2", "3", "4", "5", "6", "7", "8", "9">>

RECURSIVE Digits(_)
\* str(n) of an integer n >= 0
Digits(n) == IF n < 10 THEN <<DigitChars[n + 1]>> ELSE Append(Digits(n \div 10), DigitChars[(n % 10) + 1])

\* CHAIN_ID_MAP.get(chain_id, str(chain_id)) for chain_id = p.get("chainId", 0):
\* a number, a string or absent
CHAIN_ID_MAP(chain_id) ==
    LET id == IF chain_id.t = "missing" THEN JNum(0) ELSE chain_id IN
    IF id.t = "str" THEN id.s
    ELSE CASE id.n = 1 -> eth
           [] id.n = 56 -> bsc
           [] id.n = 101 -> sol
           [] id.n = 1001 -> sui
           [] id.n = 108 -> tao
           [] id.n = 42161 -> arbitrum
           [] id.n = 10 -> optimism
           [] id.n = 8453 -> base
           [] OTHER -> Digits(id.n)

\* line 219: the chain name of a pair
ResolveChain(p) == Lower(CHAIN_ID_MAP(p.chainId))

\* p.get(key, {}).get(sub, 0) raises AttributeError unless the value under key
\* is a dict or absent
FieldRaises(nested) == nested.t \notin {"missing", "obj"}

\* float(p.get(key, {}).get(sub, 0) or 0), unit as in FloatOf
FieldVal(nested, unit) ==
    IF nested.t = "obj" /\ Truthy(nested.v) THEN FloatOf(nested.v, unit) ELSE 0

\* lines 223-225 raise on this pair
PairRaises(p) == FieldRaises(p.liquidity) \/ FieldRaises(p.volume) \/ FieldRaises(p.priceChange)

\* line 227 with the volume test dropped
IsCandidateNoVolume(p) ==
    /\ p.t = "obj"
    /\ ResolveChain(p) \in MEME_CHAINS
    /\ FieldVal(p.liquidity, 1) >= MIN_LIQUIDITY

\* lines 215-228: the pair is appended to candidates
\* (vol24 >= 0.1 * liq, in whole dollars: 10 * vol24 >= liq)
IsCandidate(p) ==
    /\ p.t = "obj"
    /\ ResolveChain(p) \in MEME_CHAINS
    /\ FieldVal(p.liquidity, 1) >= MIN_LIQUIDITY
    /\ 10 * FieldVal(p.volume, 1) >= FieldVal(p.liquidity, 1)

\* f"{x:.2f}" of x in thousandths, in hundredths (ties to even)
Fmt2(x) == IF x < 0 THEN 0 - ApyStr(0 - x) ELSE ApyStr(x)

\* the risk of lines 237-242 with the liquidity test dropped
MemeRiskAnyLiquidity(change24, liq) ==
    IF change24 > 0 THEN "Low"
    ELSE IF change24 < -30000 THEN "High"
    ELSE "Medium"

\* lines 237-242
MemeRisk(change24, liq) ==
    IF change24 > 0 /\ liq > 1000000 THEN "Low"
    ELSE IF change24 < -30000 THEN "High"
    ELSE "Medium"

\* lines 233-254: the MemeEntry of a candidate; chain is the value the loop
\* variable `chain` has when the entry is built.  src (not a field of the
\* dataclass) names the pair the entry is built from: term and position.
MakeMemeEntry(p, chain, q, i) ==
    LET liq == FieldVal(p.liquidity, 1)
        vol24 == FieldVal(p.volume, 1)
        change24 == FieldVal(p.priceChange, 1000)
        \* base_token.get("symbol", "?"), base_token = {} unless baseToken is a dict
        base_symbol == IF p.baseToken.t = "obj" THEN p.baseToken.v ELSE JMissing
    IN  [symbol |-> StrOr(base_symbol, <<"?">>),
         chain |-> chain,
         price_usd |-> StrOr(p.priceUsd, NA),
         liquidity_usd |-> TvlStr(liq),
         volume_24h_usd |-> TvlStr(vol24),
         change_24h_pct |-> Fmt2(change24),
         risk |-> MemeRisk(change24, liq),
         src |-> <<q, i>>]

\* lines 212-254 for the pairs of term q: the entries the term appends to
\* results.  `chain` is assigned in the first loop (line 219) and read in the
\* second (line 247): every entry gets the chain of the last dict pair of the
\* term's list.
TermEntries(pairs, q) ==
    LET tagged == List([i \in 1..Len(pairs) |-> [p |-> pairs[i], i |-> i]])
        cands == SelectSeq(tagged, LAMBDA x : IsCandidate(x.p))
        top == Take(SortedDesc(cands, List([k \in 1..Len(cands) |-> FieldVal(cands[k].p.volume, 1)])), 3)
        dicts == {i \in 1..Len(pairs) : pairs[i].t = "obj"}
        last == CHOOSE i \in dicts : \A j \in dicts : j <= i
    IN  List([k \in 1..Len(top) |-> MakeMemeEntry(top[k].p, ResolveChain(pairs[last]), q, top[k].i)])

\* lines 203-228 raise for this response: the body is not an object, or a
\* dict pair on a tracked chain has a null or non-dict field object
TermRaises(resp) ==
    LET data == safe_request(resp) IN
    \/ data.kind # "object"
    \/ /\ ~data.error
       /\ data.data = "list"
       /\ \E i \in 1..Len(data.items) :
            LET p == data.items[i] IN
            p.t = "obj" /\ ResolveChain(p) \in MEME_CHAINS /\ PairRaises(p)

\* the entries a term contributes when nothing raises: none after `continue`
\* at line 206 or 210
TermContribution(resp, q) ==
    LET data == safe_request(resp) IN
    IF data.error \/ data.data # "list" THEN <<>> ELSE TermEntries(data.items, q)

RECURSIVE ConcatTerms(_, _)
\* results after the terms 1..n
ConcatTerms(feed, n) ==
    IF n = 0 THEN <<>> ELSE ConcatTerms(feed, n - 1) \o TermContribution(feed[n], n)

\* the response makes the loop `continue` at line 206 or 210
TermSkipped(resp) ==
    LET data == safe_request(resp) IN data.kind = "object" /\ (data.error \/ data.data # "list")

\* get_meme_coins that ends the scan at the first skipped term (break for
\* continue)
get_meme_coins_break(feed) ==
    LET skipped == {q \in 1..Len(queries) : TermSkipped(feed[q])}
        n == IF skipped = {} THEN Len(queries)
             ELSE (CHOOSE q \in skipped : \A r \in skipped : q <= r) - 1
    IN  IF \E q \in 1..n : TermRaises(feed[q])
        THEN [status |-> "raised", value |-> <<>>]
        ELSE [status |-> "returned", value |-> Take(ConcatTerms(feed, n), 12)]

\* get_meme_coins without the final cut
get_meme_coins_uncut(feed) ==
    IF \E q \in 1..Len(queries) : TermRaises(feed[q])
    THEN [status |-> "raised", value |-> <<>>]
    ELSE [status |-> "returned", value |-> ConcatTerms(feed, Len(queries))]

\* get_meme_coins that sorts the whole list by 24h volume before the cut
get_meme_coins_resorted(feed) ==
    LET all == ConcatTerms(feed, Len(queries)) IN
    IF \E q \in 1..Len(queries) : TermRaises(feed[q])
    THEN [status |-> "raised", value |-> <<>>]
    ELSE [status |-> "returned",
          value |-> Take(SortedDesc(all, List([k \in 1..Len(all) |-> all[k].volume_24h_usd])), 12)]

\* def get_meme_coins(): feed[q] is the response to the search for queries[q]
get_meme_coins(feed) ==
    IF \E q \in 1..Len(queries) : TermRaises(feed[q])
    THEN [status |-> "raised", value |-> <<>>]
    ELSE [status |-> "returned", value |-> Take(ConcatTerms(feed, Len(queries)), 12)]

(***************************************************************************)
(* The pair feed                                                           *)
(***************************************************************************)
\* the value under "liquidity", "volume", "priceChange" or "baseToken": absent,
\* null, or an object with v under "usd" / "h24" / "symbol"
NMissing == [t |-> "missing", v |-> JMissing]
NNull == [t |-> "null", v |-> JMissing]
NObj(v) == [t |-> "obj", v |-> v]

Pair(chainId, liquidity, volume, priceChange, symbol) ==
    [t |-> "obj", chainId |-> chainId, liquidity |-> liquidity, volume |-> volume,
     priceChange |-> priceChange, baseToken |-> NObj(JStr(symbol)),
     priceUsd |-> JStr(<<"0", ".", "1">>)]

PEPE == <<"P", "E", "P", "E">>
DOGE == <<"D", "O", "G", "E">>

\* the pairs of the varied feed
MemePairs ==
    {Pair(JNum(1), NObj(JNum(200000)), NObj(JNum(50000)), NObj(JNum(5000)), PEPE),
     Pair(JNum(1), NObj(JNum(200000)), NObj(JNum(15000)), NObj(JNum(5000)), PEPE),
     Pair(JNum(999999), NObj(JNum(2000000)), NObj(JNum(1000000)), NObj(JNum(10000)), PEPE),
     Pair(JNum(56), NObj(JNum(2000000)), NObj(JNum(300000)), NObj(JNum(10000)), DOGE),
     Pair(JNum(8453), NObj(JNum(150000)), NObj(JNum(100000)), NObj(JNum(-40000)), DOGE),
     Pair(JNum(1), NObj(JNum(99999)), NObj(JNum(99999)), NMissing, PEPE),
     Pair(JNum(1), NNull, NObj(JNum(50000)), NObj(JNum(5000)), PEPE),
     Pair(JNum(1), NObj(JNum(1000000)), NObj(JNum(100000)), NObj(JNull), DOGE)}

MemeShapes ==
    [kind : {"network", "status"}, error : {FALSE}, data : {"missing"}, items : {<<>>}]
    \cup [kind : {"object"}, error : {FALSE}, data : {"missing", "other"}, items : {<<>>}]
    \cup [kind : {"object"}, error : {TRUE}, data : {"list"}, items : {<<>>}]
    \cup [kind : {"array"}, error : {FALSE}, data : {"missing"}, items : {<<>>}]

NoCoins == [status |-> "none", value |-> <<>>]

MaxMemeItems == 2

\* the pairs listed and the searches answered other than by a list of pairs
MemeItems(feed) ==
    LET n(q) == IF feed[q] = OkFeed THEN 0
                ELSE IF feed[q].items = <<>> THEN 1 ELSE Len(feed[q].items)
    IN  n(1) + n(2) + n(3) + n(4) + n(5)

\* the search for queries[q] answers with another status or body shape
MemeFeedSetShape(q, shape, maxItems) ==
    /\ meme_coins.status = "none"
    /\ memeFeed[q] = OkFeed
    /\ MemeItems(memeFeed) < maxItems
    /\ memeFeed' = [memeFeed EXCEPT ![q] = shape]
    /\ UNCHANGED <<scoreCall, yieldFeed, opportunities, top_picks, meme_coins, previous, walletVars>>

\* the search for queries[q] lists one more pair
MemeFeedAppend(q, pair, maxItems) ==
    /\ meme_coins.status = "none"
    /\ memeFeed[q].kind = "object" /\ ~memeFeed[q].error /\ memeFeed[q].data = "list"
    /\ MemeItems(memeFeed) < maxItems
    /\ memeFeed' = [memeFeed EXCEPT ![q].items = Append(@, pair)]
    /\ UNCHANGED <<scoreCall, yieldFeed, opportunities, top_picks, meme_coins, previous, walletVars>>

\* app.py line 473: meme_coins = get_meme_coins()
GetMemeCoins ==
    /\ meme_coins' = get_meme_coins(memeFeed)
    /\ UNCHANGED <<scoreCall, yieldFeed, opportunities, top_picks, memeFeed, previous, walletVars>>

\* app.py lines 470-479, one run of the dashboard script: both scanners, then
\* the top picks; an exception ends the run where it is raised
Refresh ==
    LET o == classify_yield_opportunities(yieldFeed)
        m == get_meme_coins(memeFeed)
    IN  /\ opportunities' = o
        /\ meme_coins' = IF o.status = "raised" THEN NoCoins ELSE m
        /\ top_picks' = IF o.status = "returned" /\ m.status = "returned"
                        THEN [status |-> "returned", value |-> get_top_picks(Flatten(o.value))]
                        ELSE NoPicks
        /\ previous' = opportunities
        /\ UNCHANGED <<scoreCall, yieldFeed, memeFeed, walletVars>>

\* the pairs of the long feeds
BulkPairs ==
    {Pair(JNum(1), NObj(JNum(200000)), NObj(JNum(50000)), NObj(JNum(5000)), PEPE),
     Pair(JNum(56), NObj(JNum(2000000)), NObj(JNum(300000)), NObj(JNum(10000)), DOGE)}

MaxPerTerm == 3

\* the search for queries[q] lists one more pair like those the searches list
\* (long feeds: at most MaxPerTerm pairs per term, all alike)
MemeFeedAppendBulk(q, pair) ==
    /\ meme_coins.status = "none"
    /\ Len(memeFeed[q].items) < MaxPerTerm
    /\ \A r \in 1..Len(queries) : \A i \in 1..Len(memeFeed[r].items) : memeFeed[r].items[i] = pair
    /\ memeFeed' = [memeFeed EXCEPT ![q].items = Append(@, pair)]
    /\ UNCHANGED <<scoreCall, yieldFeed, opportunities, top_picks, meme_coins, previous, walletVars>>

NoMemeFeed == [q \in 1..Len(queries) |-> OkFeed]

\* a pair on Ethereum with liquidity 200000 and the given 24h volume
VolumePair(vol) == Pair(JNum(1), NObj(JNum(200000)), NObj(JNum(vol)), NObj(JNum(5000)), PEPE)

\* the pair lists a search answers with in the ranked feeds: four candidates
\* of different volumes; three with a tie; one below the volume test and one
\* candidate; three candidates of low volume
RankedAnswers ==
    {<<VolumePair(50000), VolumePair(90000), VolumePair(30000), VolumePair(80000)>>,
     <<VolumePair(50000), VolumePair(50000), VolumePair(90000)>>,
     <<VolumePair(15000), VolumePair(80000)>>,
     <<VolumePair(30000), VolumePair(30000), VolumePair(30000)>>}

\* the search for queries[q] answers with a list of pairs
MemeFeedAnswer(q, items) ==
    /\ meme_coins.status = "none"
    /\ memeFeed[q] = OkFeed
    /\ memeFeed' = [memeFeed EXCEPT ![q].items = items]
    /\ UNCHANGED <<scoreCall, yieldFeed, opportunities, top_picks, meme_coins, previous, walletVars>>

(***************************************************************************)
(* wallet_utils.py: the mock wallets and the positions                     *)
(*                                                                         *)
(* Balances, amounts and position values are in 1/10000 of a token (the    *)
(* precision connect() rounds to).  A position keeps the fields the wallet *)
(* module reads or writes; opportunity_name, chain and entry_date are      *)
(* copied from the arguments and the clock and never read by it.           *)
(***************************************************************************)
\* get_all_wallets(): the wallet types in the order of the list
WalletTypes == <<"MetaMask", "Phantom", "SUI", "TAO">>

\* MockWallet.__init__, and the fields after disconnect(); chain_id 0 is None
NewWallet == [connected |-> FALSE, balance |-> 0, chain_id |-> 0, network_name |-> ""]

\* init_wallets()
InitWallets == [w \in {WalletTypes[k] : k \in 1..Len(WalletTypes)} |-> NewWallet]

\* a balance random.uniform can give the wallet in connect()
ConnectBalances(wallet_type) ==
    CASE wallet_type = "MetaMask" -> {5000}
      [] wallet_type = "Phantom" -> {100000}
      [] wallet_type = "SUI" -> {500000}
      [] wallet_type = "TAO" -> {1000}

ChainIdOf(wallet_type) ==
    CASE wallet_type = "MetaMask" -> 1
      [] wallet_type = "Phantom" -> 101
      [] wallet_type = "SUI" -> 1001
      [] wallet_type = "TAO" -> 108

NetworkNameOf(wallet_type) ==
    CASE wallet_type = "MetaMask" -> "Ethereum Mainnet"
      [] wallet_type = "Phantom" -> "Solana Mainnet"
      [] wallet_type = "SUI" -> "SUI Network"
      [] wallet_type = "TAO" -> "Bittensor Network"

\* the result of a call of the wallet module: the operation, its arguments
\* (those it has) and the "success" of the dict it returns
CallResult(op, wallet_type, amount, id, success) ==
    [op |-> op, wallet_type |-> wallet_type, amount |-> amount, id |-> id, success |-> success]

NoWalletCall == CallResult("none", "", 0, "", FALSE)

\* MockWallet.connect(): returns True
Connect(wallet_type, balance) ==
    /\ wallets' = [wallets EXCEPT ![wallet_type] =
                     [connected |-> TRUE, balance |-> balance,
                      chain_id |-> ChainIdOf(wallet_type),
                      network_name |-> NetworkNameOf(wallet_type)]]
    /\ walletCall' = CallResult("connect", wallet_type, 0, "", TRUE)
    /\ UNCHANGED <<scoreCall, yieldFeed, opportunities, top_picks, memeFeed, meme_coins, previous, positions>>

\* MockWallet.disconnect(): returns None
Disconnect(wallet_type) ==
    /\ wallets' = [wallets EXCEPT ![wallet_type] = NewWallet]
    /\ walletCall' = CallResult("disconnect", wallet_type, 0, "", TRUE)
    /\ UNCHANGED <<scoreCall, yieldFeed, opportunities, top_picks, memeFeed, meme_coins, previous, positions>>

\* get_connected_wallet(): the type of the first connected wallet, "" for None
get_connected_wallet ==
    LET conn == {k \in 1..Len(WalletTypes) : wallets[WalletTypes[k]].connected} IN
    IF conn = {} THEN "" ELSE WalletTypes[CHOOSE k \in conn : \A j \in conn : k <= j]

\* Position(...) as simulate_transaction builds it; credits (not a field of
\* the dataclass) counts the times the position's value was added to a balance
NewPosition(id, amount, apy, wallet_type) ==
    [id |-> id, amount_invested |-> amount, current_value |-> amount, apy |-> apy,
     status |-> "active", wallet_type |-> wallet_type, credits |-> 0]

\* simulate_transaction without the balance check of line 145
simulate_transaction_unchecked(amount, wallet_type, apy, id) ==
    IF ~wallets[wallet_type].connected
    THEN [success |-> FALSE, positions |-> positions, wallets |-> wallets]
    ELSE [success |-> TRUE,
          positions |-> Append(positions, NewPosition(id, amount, apy, wallet_type)),
          wallets |-> [wallets EXCEPT ![wallet_type].balance = @ - amount]]

\* def simulate_transaction(amount, opportunity_name, wallet, chain, apy): the
\* dict's success and the state it leaves; id is the position_id that
\* time.time() and random.randint give
simulate_transaction(amount, wallet_type, apy, id) ==
    IF ~wallets[wallet_type].connected \/ wallets[wallet_type].balance < amount
    THEN [success |-> FALSE, positions |-> positions, wallets |-> wallets]
    ELSE [success |-> TRUE,
          positions |-> Append(positions, NewPosition(id, amount, apy, wallet_type)),
          wallets |-> [wallets EXCEPT ![wallet_type].balance = @ - amount]]

\* def close_position(position_id): the loop marks every position of that id
\* closed (line 181) until one is of the connected wallet's type; that one is
\* credited to the wallet and ends the loop (lines 183-186)
close_position(position_id) ==
    LET wallet == get_connected_wallet
        matches == {k \in 1..Len(positions) : positions[k].id = position_id}
        hits == {k \in matches : wallet # "" /\ wallet = positions[k].wallet_type}
        hit == IF hits = {} THEN 0 ELSE CHOOSE k \in hits : \A j \in hits : k <= j
        closed == IF hit = 0 THEN matches ELSE {k \in matches : k <= hit}
    IN  [success |-> hit # 0,
         hit |-> hit,
         positions |-> List([k \in 1..Len(positions) |->
                          IF k \in closed
                          THEN [positions[k] EXCEPT !.status = "closed",
                                                    !.credits = IF k = hit THEN @ + 1 ELSE @]
                          ELSE positions[k]]),
         wallets |-> IF hit = 0 THEN wallets
                     ELSE [wallets EXCEPT ![wallet].balance = @ + positions[hit].current_value]]

\* the amounts entered, the apy of the opportunity, the ids drawn
Amounts == {3000, 5000, 6000}
PositionApy == 12500
PositionIds == {"pos_1_1000", "pos_1_1001"}
UnknownId == "pos_0_0000"

MaxPositions == 1
MaxCredits == 2

\* a call of simulate_transaction (at most MaxPositions positions are opened)
SimulateTransaction(amount, wallet_type, id) ==
    LET r == simulate_transaction(amount, wallet_type, PositionApy, id) IN
    /\ Len(positions) < MaxPositions
    /\ positions' = r.positions
    /\ wallets' = r.wallets
    /\ walletCall' = CallResult("simulate_transaction", wallet_type, amount, id, r.success)
    /\ UNCHANGED <<scoreCall, yieldFeed, opportunities, top_picks, memeFeed, meme_coins, previous>>

\* a call of close_position (no position is credited more than MaxCredits times)
ClosePosition(position_id) ==
    LET r == close_position(position_id) IN
    /\ r.hit # 0 => positions[r.hit].credits < MaxCredits
    /\ positions' = r.positions
    /\ wallets' = r.wallets
    /\ walletCall' = CallResult("close_position", "", 0, position_id, r.success)
    /\ UNCHANGED <<scoreCall, yieldFeed, opportunities, top_picks, memeFeed, meme_coins, previous>>

(***************************************************************************)
(* Specifications                                                          *)
(***************************************************************************)
Init ==
    /\ scoreCall = NoScoreCall
    /\ yieldFeed = OkFeed
    /\ opportunities = NoResult
    /\ top_picks = NoPicks
    /\ memeFeed = NoMemeFeed
    /\ meme_coins = NoCoins
    /\ previous = NoResult
    /\ wallets = InitWallets
    /\ positions = <<>>
    /\ walletCall = NoWalletCall

\* direct calls of the scoring primitives
NextScore == \E apy \in ScoreApys, tvl \in ScoreTvls, project \in ScoreProjects :
                CallRiskScore(apy, tvl, project)

SpecScore == Init /\ [][NextScore]_vars

\* one refresh over a short yield feed of varied records and responses
NextYield ==
    \/ \E shape \in FeedShapes : FeedSetShape(shape)
    \/ \E raw \in YieldPools : FeedAppend(raw, MaxVaried, MaxVaried)
    \/ ClassifyYield
    \/ TopPicks

SpecYield == Init /\ [][NextYield]_vars

\* one refresh over a long yield feed of few kinds of records
NextYieldBulk ==
    \/ \E raw \in BulkPools : FeedAppend(raw, MaxPools, MaxRuns)
    \/ ClassifyYield
    \/ TopPicks

SpecYieldBulk == Init /\ [][NextYieldBulk]_vars

\* one scan over short pair feeds of varied pairs and responses
NextMeme ==
    \/ \E q \in 1..Len(queries), shape \in MemeShapes : MemeFeedSetShape(q, shape, MaxMemeItems)
    \/ \E q \in 1..Len(queries), pair \in MemePairs : MemeFeedAppend(q, pair, MaxMemeItems)
    \/ GetMemeCoins

SpecMeme == Init /\ [][NextMeme]_vars

\* one scan over pair feeds in which every search lists several candidates
NextMemeRanked ==
    \/ \E q \in 1..Len(queries), items \in RankedAnswers : MemeFeedAnswer(q, items)
    \/ GetMemeCoins

SpecMemeRanked == Init /\ [][NextMemeRanked]_vars

\* one run of the dashboard over long feeds (one of the two feeds is long, the
\* other lists nothing)
NextRefresh ==
    \/ \E raw \in BulkPools : memeFeed = NoMemeFeed /\ FeedAppend(raw, MaxPools, MaxRuns)
    \/ \E q \in 1..Len(queries), pair \in BulkPairs : yieldFeed = OkFeed /\ MemeFeedAppendBulk(q, pair)
    \/ Refresh

SpecRefresh == Init /\ [][NextRefresh]_vars

\* the wallets the session uses
SessionWallets == {"MetaMask", "Phantom"}

\* a session of the wallet module
NextWallet ==
    \/ \E w \in SessionWallets : \E balance \in ConnectBalances(w) : Connect(w, balance)
    \/ \E w \in SessionWallets : Disconnect(w)
    \/ \E amount \in Amounts, w \in SessionWallets, id \in PositionIds :
            SimulateTransaction(amount, w, id)
    \/ \E id \in PositionIds \cup {UnknownId} : ClosePosition(id)

SpecWallet == Init /\ [][NextWallet]_vars

Next == NextScore \/ NextYield \/ NextYieldBulk \/ NextMeme \/ NextMemeRanked \/ NextRefresh \/ NextWallet

Spec == Init /\ [][Next]_vars

(***************************************************************************)
(* Properties                                                              *)
(***************************************************************************)
\* the record at position i of the feed has an entry in the bucket
In(bucket, i) == \E k \in 1..Len(bucket) : bucket[k].src = i

\* a pool record with numeric apy >= 5.0 and tvlUsd >= 500000
Qualifies(raw) ==
    /\ raw.t = "obj"
    /\ raw.apy.t = "num" /\ raw.apy.n >= 5000
    /\ raw.tvlUsd.t = "num" /\ raw.tvlUsd.n >= 500000

\* the record's project is a focus protocol
IsFocusRecord(raw) == raw.project.t = "str" /\ Lower(raw.project.s) \in FOCUS_PROTOCOLS

\* the multiplier of a risk tier: 1.0, 0.6, 0.3, in tenths
Multiplier(tier) == CASE tier = "Low" -> 10 [] tier = "Medium" -> 6 [] tier = "High" -> 3

AllEntries(b) == {b.long_term[k] : k \in 1..Len(b.long_term)}
                 \cup {b.short_term[k] : k \in 1..Len(b.short_term)}
                 \cup {b.focus[k] : k \in 1..Len(b.focus)}
                 \cup {b.layer2[k] : k \in 1..Len(b.layer2)}

\* C1 as stated: after classify_yield_opportunities has returned, every
\* qualifying record of the snapshot is in exactly one of long_term and
\* short_term and not in focus if its project is not a focus protocol, and in
\* focus and in neither long_term nor short_term if it is, for any number of
\* qualifying records.
C1_ExactlyOneBucket ==
    opportunities.status = "returned" =>
        \A i \in 1..Len(yieldFeed.items) :
            LET raw == yieldFeed.items[i]
                b == opportunities.value
            IN  Qualifies(raw) =>
                    IF IsFocusRecord(raw)
                    THEN In(b.focus, i) /\ ~In(b.long_term, i) /\ ~In(b.short_term, i)
                    ELSE /\ ~In(b.focus, i)
                         /\ (In(b.long_term, i) /\ ~In(b.short_term, i))
                            \/ (In(b.short_term, i) /\ ~In(b.long_term, i))

\* C1 amended: every qualifying record is in at most one of long_term,
\* short_term and focus, a focus-protocol record in none but focus and any
\* other record not in focus; and it is in one of them unless the bucket it
\* belongs to (focus for a focus protocol, else long_term for tier Low and
\* short_term otherwise) holds 10 entries without it, each bucket being cut to
\* its 10 best.
C1_OneBucketUnlessCut ==
    opportunities.status = "returned" =>
        \A i \in 1..Len(yieldFeed.items) :
            LET raw == yieldFeed.items[i]
                b == opportunities.value
                low == risk_score(raw.apy.n, raw.tvlUsd.n, StrOr(raw.project, <<>>)) = "Low"
            IN  Qualifies(raw) =>
                    IF IsFocusRecord(raw)
                    THEN /\ ~In(b.long_term, i) /\ ~In(b.short_term, i)
                         /\ In(b.focus, i) \/ Len(b.focus) = 10
                    ELSE /\ ~In(b.focus, i)
                         /\ low => (~In(b.short_term, i) /\ (In(b.long_term, i) \/ Len(b.long_term) = 10))
                         /\ ~low => (~In(b.long_term, i) /\ (In(b.short_term, i) \/ Len(b.short_term) = 10))

\* C1 witness: a snapshot with a focus record in focus, another record in
\* long_term, and a qualifying record cut from the full long_term bucket
C1_Witness ==
    /\ opportunities.status = "returned"
    /\ Len(opportunities.value.long_term) = 10
    /\ \E i, j, k \in 1..Len(yieldFeed.items) :
        /\ Qualifies(yieldFeed.items[i]) /\ IsFocusRecord(yieldFeed.items[i])
        /\ In(opportunities.value.focus, i)
        /\ Qualifies(yieldFeed.items[j]) /\ In(opportunities.value.long_term, j)
        /\ Qualifies(yieldFeed.items[k]) /\ ~IsFocusRecord(yieldFeed.items[k])
        /\ ~In(opportunities.value.long_term, k) /\ ~In(opportunities.value.short_term, k)

\* C2: every entry of every returned bucket comes from a record that is an
\* object with numeric apy >= MIN_APY and numeric tvlUsd >= MIN_TVL; a feed that
\* is an object with a list under data never makes the call raise, whatever
\* its records; and the records after a skipped one are still processed: in a
\* snapshot of at most 10 records every qualifying record has its entry.
C2_RetainedAboveThresholds ==
    opportunities.status # "none" =>
        /\ \A e \in AllEntries(opportunities.value) :
            /\ e.src \in 1..Len(yieldFeed.items)
            /\ Qualifies(yieldFeed.items[e.src])
        /\ (yieldFeed.kind = "object" /\ yieldFeed.data = "list") => opportunities.status = "returned"
        /\ (opportunities.status = "returned" /\ ~yieldFeed.error /\ Len(yieldFeed.items) <= 10) =>
            \A i \in 1..Len(yieldFeed.items) :
                Qualifies(yieldFeed.items[i]) =>
                    \E e \in AllEntries(opportunities.value) : e.src = i

\* C2 witness: a record that is skipped, followed by a record that is retained
C2_Witness ==
    /\ opportunities.status = "returned"
    /\ Len(yieldFeed.items) >= 2
    /\ ~Qualifies(yieldFeed.items[1])
    /\ \E e \in AllEntries(opportunities.value) : e.src = 2

\* C3 as stated: the rankingScore of every retained entry is the apy the entry
\* carries (apy_value(), the displayed two-decimal apy) times 1.0, 0.6 or 0.3
\* by riskTier.
C3_RorOfDisplayedApy ==
    opportunities.status = "returned" =>
        \A e \in AllEntries(opportunities.value) : e.ror = apy_value(e) * Multiplier(e.risk)

\* C3 amended: the rankingScore of every retained entry is the apy of its feed
\* record, unrounded, times 1.0, 0.6 or 0.3 by riskTier; it is apy_value()
\* times that multiplier when the feed apy has at most two decimals.
C3_RorOfFeedApy ==
    opportunities.status = "returned" =>
        \A e \in AllEntries(opportunities.value) :
            LET apy == yieldFeed.items[e.src].apy.n IN
            /\ e.risk \in {"Low", "Medium", "High"}
            /\ e.ror = apy * Multiplier(e.risk)
            /\ apy % 10 = 0 => e.ror = apy_value(e) * Multiplier(e.risk)

\* C3 witness: an entry whose feed apy has a third decimal, and one of each tier
C3_Witness ==
    /\ opportunities.status = "returned"
    /\ \E e \in AllEntries(opportunities.value) : yieldFeed.items[e.src].apy.n % 10 # 0
    /\ \E e \in AllEntries(opportunities.value) : e.risk = "Low"

\* two strings are equal up to the case of their letters
EqIgnoreCase(a, b) ==
    /\ Len(a) = Len(b)
    /\ \A i \in 1..Len(a) :
        \/ a[i] = b[i]
        \/ \E k \in 1..Len(Uppers) : {a[i], b[i]} = {Uppers[k], Lowers[k]}

\* the decision table of C4
RiskTable(apy, tvl, project) ==
    CASE \E f \in FOCUS_PROTOCOLS : EqIgnoreCase(project, f) -> "Low"
      [] OTHER ->
        CASE tvl > 50000000 /\ apy < 15000 -> "Low"
          [] OTHER ->
            CASE tvl >= 5000000 /\ tvl <= 50000000 /\ apy >= 15000 /\ apy <= 50000 -> "Medium"
              [] OTHER ->
                CASE tvl < 5000000 \/ apy > 50000 -> "High"
                  [] OTHER -> "Medium"

\* C4: risk_score(apy, tvl, project) is the first match of: Low for a focus
\* project (case-insensitively); Low if tvl > 50M and apy < 15; Medium if
\* 5M <= tvl <= 50M and 15 <= apy <= 50; High if tvl < 5M or apy > 50; else
\* Medium.  A focus pool with apy 20 and tvl 60M gets Low and ror 20.
C4_RiskScoreTable ==
    scoreCall.called =>
        /\ scoreCall.score = RiskTable(scoreCall.apy, scoreCall.tvl, scoreCall.project)
        /\ (scoreCall.apy = 20000 /\ scoreCall.tvl = 60000000 /\ scoreCall.project = beefy) =>
            (scoreCall.score = "Low" /\ scoreCall.ror = 200000)

\* C4 witness: a focus project written in upper case whose apy and tvl alone
\* give Medium is scored Low
C4_Witness ==
    /\ scoreCall.called
    /\ scoreCall.project = <<"A", "A", "V", "E", "-", "V", "3">>
    /\ scoreCall.apy = 20000 /\ scoreCall.tvl = 60000000
    /\ scoreCall.score = "Low"

\* the body is not an object with a list under data
Malformed(resp) == ~(resp.kind = "object" /\ resp.data = "list")

\* C6: whenever the feed call fails or returns a malformed body,
\* classify_yield_opportunities returns the four buckets empty and does not raise.
C6_DegradeToEmpty ==
    (opportunities.status # "none" /\ (yieldFeed.kind \in FailureKinds \/ Malformed(yieldFeed))) =>
        opportunities = Returned(EmptyBuckets)

\* C5: each of the four buckets has at most 10 entries, the top picks are at
\* most 5 and the meme list at most 12.
C5_SizeBounds ==
    /\ opportunities.status = "returned" =>
        /\ Len(opportunities.value.long_term) <= 10
        /\ Len(opportunities.value.short_term) <= 10
        /\ Len(opportunities.value.focus) <= 10
        /\ Len(opportunities.value.layer2) <= 10
    /\ top_picks.status = "returned" => Len(top_picks.value) <= 5
    /\ meme_coins.status = "returned" => Len(meme_coins.value) <= 12

\* the pairs of the feed that pass the filters of the scanner
NumCandidates(feed) ==
    Cardinality({<<q, i>> \in (1..Len(queries)) \X (1..MaxPerTerm + 1) :
                    i <= Len(feed[q].items) /\ IsCandidate(feed[q].items[i])})

\* C5 witness (meme list): more than 12 pairs pass the filters, 12 are returned
C5_Witness ==
    /\ meme_coins.status = "returned"
    /\ NumCandidates(memeFeed) > 12
    /\ Len(meme_coins.value) = 12

\* a run over more than 10 focus pools on a layer-2 chain: the buckets are cut
\* to 10 and the top picks to 5
C5_YieldCase ==
    /\ top_picks.status = "returned"
    /\ Len(yieldFeed.items) > 10
    /\ \A i \in 1..Len(yieldFeed.items) : Qualifies(yieldFeed.items[i]) /\ IsFocusRecord(yieldFeed.items[i])
    /\ Len(opportunities.value.focus) = 10
    /\ Len(opportunities.value.layer2) = 10
    /\ Len(top_picks.value) = 5

\* the search answered with an error result or with pairs that are not a list
FailedQuery(resp) ==
    \/ resp.kind \in FailureKinds
    \/ resp.kind = "object" /\ (resp.error \/ resp.data = "other")

\* the response lists pairs whose liquidity, volume and priceChange are
\* objects or absent
WellFormed(resp) ==
    /\ resp.kind = "object" /\ ~resp.error /\ resp.data # "other"
    /\ \A i \in 1..Len(resp.items) :
        /\ resp.items[i].liquidity.t \in {"missing", "obj"}
        /\ resp.items[i].volume.t \in {"missing", "obj"}
        /\ resp.items[i].priceChange.t \in {"missing", "obj"}

\* C7: a failed query contributes nothing for its term only.  The outcome of
\* get_meme_coins is the outcome for the feed in which every failed query
\* answers with no pairs; the entries are in the order of the terms; and when
\* every query either fails or is well formed, the call returns.
C7_FailedTermOnly ==
    meme_coins.status # "none" =>
        LET emptied == [q \in 1..Len(queries) |->
                            IF FailedQuery(memeFeed[q]) THEN OkFeed ELSE memeFeed[q]]
        IN  /\ meme_coins = get_meme_coins(emptied)
            /\ \A q \in 1..Len(queries) :
                FailedQuery(memeFeed[q]) => \A k \in 1..Len(meme_coins.value) : meme_coins.value[k].src[1] # q
            /\ \A k, l \in 1..Len(meme_coins.value) :
                k < l => meme_coins.value[k].src[1] <= meme_coins.value[l].src[1]
            /\ (\A q \in 1..Len(queries) : FailedQuery(memeFeed[q]) \/ WellFormed(memeFeed[q]))
                => meme_coins.status = "returned"

\* C7 witness: the first query fails and a later term contributes an entry
C7_Witness ==
    /\ meme_coins.status = "returned"
    /\ FailedQuery(memeFeed[1])
    /\ \E k \in 1..Len(meme_coins.value) : meme_coins.value[k].src[1] > 1

\* the pair an entry is built from
SourcePair(e) == memeFeed[e.src[1]].items[e.src[2]]

\* the number under usd / h24 of a pair's field, 0 when absent or null
Amount(nested) == IF nested.t = "obj" /\ nested.v.t = "num" THEN nested.v.n ELSE 0

\* C8: every entry of the returned list is built from a pair with liquidity
\* >= 100,000 and 24h volume >= 0.1 x liquidity; a pair with liquidity 200000
\* and volume 15000 has no entry.
C8_LiquidityAndVolume ==
    meme_coins.status = "returned" =>
        \A k \in 1..Len(meme_coins.value) :
            LET p == SourcePair(meme_coins.value[k]) IN
            /\ Amount(p.liquidity) >= 100000
            /\ 10 * Amount(p.volume) >= Amount(p.liquidity)
            /\ ~(Amount(p.liquidity) = 200000 /\ Amount(p.volume) = 15000)

\* C8 witness: a term lists the pair with liquidity 200000 and volume 15000 and
\* a pair that passes, and the list has an entry
C8_Witness ==
    /\ meme_coins.status = "returned"
    /\ Len(meme_coins.value) = 1
    /\ \E q \in 1..Len(queries) : \E i \in 1..Len(memeFeed[q].items) :
        Amount(memeFeed[q].items[i].liquidity) = 200000 /\ Amount(memeFeed[q].items[i].volume) = 15000

\* C9: every entry of the returned list has the chain resolved from its own
\* pair's chainId, and that chain is a tracked chain.
C9_ChainOfOwnPair ==
    meme_coins.status = "returned" =>
        \A k \in 1..Len(meme_coins.value) :
            /\ meme_coins.value[k].chain = ResolveChain(SourcePair(meme_coins.value[k]))
            /\ meme_coins.value[k].chain \in MEME_CHAINS

\* C10: the returned list never has two entries for the same symbol on the
\* same chain.
C10_NoDuplicates ==
    meme_coins.status = "returned" =>
        \A k, l \in 1..Len(meme_coins.value) :
            k # l => ~(/\ meme_coins.value[k].symbol = meme_coins.value[l].symbol
                       /\ meme_coins.value[k].chain = meme_coins.value[l].chain)

\* the positions of the pairs of term q that pass the filters
Candidates(q) == {i \in 1..Len(memeFeed[q].items) : IsCandidate(memeFeed[q].items[i])}

Min(a, b) == IF a < b THEN a ELSE b

\* the number of entries term q contributes: its candidates, at most 3
Contributed(q) == Min(3, Cardinality(Candidates(q)))

RECURSIVE ContributedBefore(_)
\* the number of entries the terms before q contribute
ContributedBefore(q) == IF q = 1 THEN 0 ELSE ContributedBefore(q - 1) + Contributed(q - 1)

\* the 24h volume of the pair an entry is built from
SourceVolume(e) == Amount(SourcePair(e).volume)

\* C11: the returned list is the first 12 entries of the terms' contributions
\* in the order of the terms.  A term's contribution is its at most 3
\* candidates of highest 24h volume, in descending volume: the list has
\* min(12, sum of the contributions) entries, each from a candidate and none
\* twice, ordered by term and within a term by non-increasing volume; of a
\* term it holds as many entries as the term contributes and the cut at 12
\* leaves, and no candidate left out has a higher volume than an entry of its
\* term.  The list is not re-sorted: when the first four terms contribute 3
\* entries each, no entry is from the fifth term.
C11_TermTop3ThenFirst12 ==
    meme_coins.status = "returned" =>
        LET value == meme_coins.value
            OfTerm(q) == {k \in 1..Len(value) : value[k].src[1] = q}
            Left(q) == IF 12 > ContributedBefore(q) THEN 12 - ContributedBefore(q) ELSE 0
        IN  /\ Len(value) = Min(12, ContributedBefore(Len(queries) + 1))
            /\ \A k \in 1..Len(value) : value[k].src[2] \in Candidates(value[k].src[1])
            /\ \A k, l \in 1..Len(value) :
                k < l => /\ value[k].src # value[l].src
                         /\ value[k].src[1] <= value[l].src[1]
                         /\ value[k].src[1] = value[l].src[1]
                                => SourceVolume(value[k]) >= SourceVolume(value[l])
            /\ \A q \in 1..Len(queries) :
                /\ Cardinality(OfTerm(q)) = Min(Contributed(q), Left(q))
                /\ \A i \in Candidates(q) :
                    (\A k \in OfTerm(q) : value[k].src[2] # i)
                        => \A k \in OfTerm(q) :
                            Amount(memeFeed[q].items[i].volume) <= SourceVolume(value[k])
            /\ (\A q \in 1..4 : Contributed(q) = 3) => OfTerm(5) = {}

\* C11 witness: the first four terms contribute 3 entries each, one of them
\* from four candidates, and the fifth term's candidates, of higher volume
\* than an entry of the list, are all left out
C11_Witness ==
    /\ meme_coins.status = "returned"
    /\ \A q \in 1..4 : Contributed(q) = 3
    /\ \E q \in 1..4 : Cardinality(Candidates(q)) = 4
    /\ \E i \in Candidates(5) : \E k \in 1..Len(meme_coins.value) :
            Amount(memeFeed[5].items[i].volume) > SourceVolume(meme_coins.value[k])
    /\ Len(meme_coins.value) = 12
    /\ \A k \in 1..Len(meme_coins.value) : meme_coins.value[k].src[1] # 5

\* C12: the top picks are the first 5 entries of the four buckets laid end to
\* end (long_term, short_term, focus, layer2; nothing removed), sorted by
\* descending rankingScore with equal scores in their original order: the
\* pick at place k is the entry that exactly k - 1 entries precede (a higher
\* score, or the same score and an earlier place).  An entry in both focus
\* and layer2 occurs at least twice in the sequence that is sorted.
C12_TopFiveOfFlattened ==
    top_picks.status = "returned" =>
        LET b == opportunities.value
            flat == b.long_term \o b.short_term \o b.focus \o b.layer2
            Precedes(j, i) == flat[j].ror > flat[i].ror \/ (flat[j].ror = flat[i].ror /\ j < i)
            Place(i) == Cardinality({j \in 1..Len(flat) : Precedes(j, i)}) + 1
        IN  /\ Len(top_picks.value) = Min(5, Len(flat))
            /\ \A i \in 1..Len(flat) : Place(i) <= 5 => top_picks.value[Place(i)] = flat[i]
            /\ \A k \in 1..Len(b.focus) :
                In(b.layer2, b.focus[k].src)
                    => Cardinality({i \in 1..Len(flat) : flat[i].src = b.focus[k].src}) >= 2

\* C12 witness: more than 5 entries in the buckets; one entry of focus and
\* layer2 holds two of the five places, and two entries of equal score built
\* from different records are among the picks
C12_Witness ==
    /\ top_picks.status = "returned"
    /\ Len(Flatten(opportunities.value)) > 5
    /\ Len(top_picks.value) = 5
    /\ \E k, l \in 1..5 :
        /\ k < l
        /\ top_picks.value[k].src = top_picks.value[l].src
        /\ In(opportunities.value.focus, top_picks.value[k].src)
        /\ In(opportunities.value.layer2, top_picks.value[k].src)
    /\ \E k, l \in 1..5 :
        /\ k < l
        /\ top_picks.value[k].ror = top_picks.value[l].ror
        /\ top_picks.value[k].src < top_picks.value[l].src

C14_BucketsRankedAndCut ==
    opportunities.status = "returned" =>
        LET es == Entries(yieldFeed.items)
            Holds(bucket, Q(_)) ==
                LET qual == {i \in 1..Len(es) : Q(es[i])} IN
                /\ Len(bucket) = Min(10, Cardinality(qual))
                /\ \A k \in 1..Len(bucket) : \E i \in qual : bucket[k] = es[i]
                /\ \A k, l \in 1..Len(bucket) :
                    k < l => \/ bucket[k].ror > bucket[l].ror
                             \/ bucket[k].ror = bucket[l].ror /\ bucket[k].src < bucket[l].src
                /\ \A i \in qual :
                    ~In(bucket, es[i].src)
                        => \A k \in 1..Len(bucket) :
                            \/ es[i].ror < bucket[k].ror
                            \/ es[i].ror = bucket[k].ror /\ es[i].src > bucket[k].src
        IN  /\ SORT_MODE = "ror"
            /\ Holds(opportunities.value.long_term, InLongTerm)
            /\ Holds(opportunities.value.short_term, InShortTerm)
            /\ Holds(opportunities.value.focus, InFocus)
            /\ Holds(opportunities.value.layer2, InLayer2)

\* C14 witness: more than 10 records qualify for layer2; the bucket holds 10
\* of two different scores, one of them ahead of an entry that the feed lists
\* before it
C14_Witness ==
    /\ opportunities.status = "returned"
    /\ Cardinality({i \in 1..Len(Entries(yieldFeed.items)) : InLayer2(Entries(yieldFeed.items)[i])}) > 10
    /\ Len(opportunities.value.layer2) = 10
    /\ \E k, l \in 1..10 :
        /\ k < l
        /\ opportunities.value.layer2[k].ror > opportunities.value.layer2[l].ror
        /\ opportunities.value.layer2[k].src > opportunities.value.layer2[l].src

\* the project of the call is not a focus protocol, in any letter case
NonFocusCall ==
    scoreCall.called /\ ~\E f \in FOCUS_PROTOCOLS : EqIgnoreCase(scoreCall.project, f)

\* C15 as stated: for a non-focus project with tvl between 5,000,000 and
\* 50,000,000 and apy greater than 50, risk_score returns the fallback Medium.
C15_GapIsMedium ==
    (NonFocusCall /\ 5000000 <= scoreCall.tvl /\ scoreCall.tvl <= 50000000 /\ scoreCall.apy > 50000)
        => scoreCall.score = "Medium"

\* C15, amended: for a non-focus project with tvl between 5,000,000 and
\* 50,000,000 and apy greater than 50, risk_score returns High (the rule
\* "tvl < 5M or apy > 50" matches).  The fallback Medium is returned for a
\* non-focus project exactly when 5M <= tvl <= 50M and apy < 15, or
\* tvl > 50M and 15 <= apy <= 50.
C15_GapIsHigh ==
    NonFocusCall =>
        LET apy == scoreCall.apy
            tvl == scoreCall.tvl
            Low == tvl > 50000000 /\ apy < 15000
            Medium == 5000000 <= tvl /\ tvl <= 50000000 /\ 15000 <= apy /\ apy <= 50000
            Gap == \/ 5000000 <= tvl /\ tvl <= 50000000 /\ apy < 15000
                   \/ tvl > 50000000 /\ 15000 <= apy /\ apy <= 50000
        IN  /\ (5000000 <= tvl /\ tvl <= 50000000 /\ apy > 50000) => scoreCall.score = "High"
            /\ Gap => scoreCall.score = "Medium"
            /\ (scoreCall.score = "Medium" /\ ~Medium) => Gap
            /\ Gap => ~Low /\ ~Medium

\* C15 witness: risk_score(50.001, 5000000, "foo") returned High
C15_Witness ==
    /\ NonFocusCall
    /\ scoreCall.project = foo
    /\ scoreCall.tvl = 5000000
    /\ scoreCall.apy = 50001
    /\ scoreCall.score = "High"

\* C16: a pair whose liquidity, volume or priceChange object, or its usd / h24
\* field, is missing or null is processed with the value 0 and never raises:
\* when every search is answered by a JSON object or fails in safe_request,
\* get_meme_coins returns, and every entry carries the amounts of its pair
\* with 0 for what is missing or null.
C16_MissingOrNullIsZero ==
    (/\ meme_coins.status # "none"
     /\ \A q \in 1..Len(queries) : memeFeed[q].kind \in FailureKinds \cup {"object"})
        => /\ meme_coins.status = "returned"
           /\ \A k \in 1..Len(meme_coins.value) :
                LET p == SourcePair(meme_coins.value[k]) IN
                /\ meme_coins.value[k].liquidity_usd = Amount(p.liquidity)
                /\ meme_coins.value[k].volume_24h_usd = Amount(p.volume)
                /\ (Amount(p.priceChange) = 0) => meme_coins.value[k].change_24h_pct = 0

\* C17: every entry of the returned list has riskTier Low if its pair's 24h
\* change is > 0 and its liquidity is > 1,000,000; otherwise High if the
\* change is < -30; otherwise Medium.  So a pair with positive change and
\* liquidity <= 1,000,000, or with a change in [-30, 0], is Medium.
C17_MemeRiskTier ==
    meme_coins.status = "returned" =>
        \A k \in 1..Len(meme_coins.value) :
            LET p == SourcePair(meme_coins.value[k])
                change == Amount(p.priceChange)
                liquidity == Amount(p.liquidity)
                tier == meme_coins.value[k].risk
            IN  /\ (change > 0 /\ liquidity > 1000000) => tier = "Low"
                /\ (~(change > 0 /\ liquidity > 1000000) /\ change < -30000) => tier = "High"
                /\ (~(change > 0 /\ liquidity > 1000000) /\ ~(change < -30000)) => tier = "Medium"
                /\ (change > 0 /\ liquidity <= 1000000) => tier = "Medium"
                /\ (-30000 <= change /\ change <= 0) => tier = "Medium"

\* C17 witness: the list holds a Medium entry of positive change and
\* liquidity at most 1,000,000 and an entry of another tier
C17_Witness ==
    /\ meme_coins.status = "returned"
    /\ \E k, l \in 1..Len(meme_coins.value) :
        /\ meme_coins.value[k].risk = "Medium"
        /\ Amount(SourcePair(meme_coins.value[k]).priceChange) > 0
        /\ Amount(SourcePair(meme_coins.value[k]).liquidity) <= 1000000
        /\ meme_coins.value[l].risk \in {"Low", "High"}

\* C18: over any sequence of connect, simulate_transaction, close_position
\* and disconnect calls, the value of a position is added to a wallet balance
\* at most once: a close_position call on a position that is closed credits
\* no wallet again.
C18_ReturnedAtMostOnce ==
    \A k \in 1..Len(positions) : positions[k].credits <= 1

\* C19: a close_position call that returns success False (unknown id, no
\* connected wallet, or a first connected wallet of another type) leaves the
\* state unchanged: every position keeps its status and no balance changes.
C19_FailedCloseChangesNothing ==
    [][(walletCall'.op = "close_position" /\ ~walletCall'.success)
            => (positions' = positions /\ wallets' = wallets)]_vars

\* C20: simulate_transaction with a wallet that is not connected or whose
\* balance is less than the amount returns success False and leaves the
\* positions and the wallets as they are; otherwise it returns success True,
\* appends exactly one position, active, with amount_invested =
\* current_value = amount, and takes exactly amount from that wallet's
\* balance and nothing else; with an amount >= 0 the balance it leaves is
\* not negative.
C20_SimulateTransactionEffect ==
    [][walletCall'.op = "simulate_transaction" =>
        LET w == walletCall'.wallet_type
            amount == walletCall'.amount
            n == Len(positions)
        IN  IF ~wallets[w].connected \/ wallets[w].balance < amount
            THEN /\ ~walletCall'.success
                 /\ positions' = positions
                 /\ wallets' = wallets
            ELSE /\ walletCall'.success
                 /\ Len(positions') = n + 1
                 /\ \A k \in 1..n : positions'[k] = positions[k]
                 /\ positions'[n + 1].status = "active"
                 /\ positions'[n + 1].amount_invested = amount
                 /\ positions'[n + 1].current_value = amount
                 /\ wallets'[w].balance = wallets[w].balance - amount
                 /\ wallets' = [wallets EXCEPT ![w].balance = wallets'[w].balance]
                 /\ amount >= 0 => wallets'[w].balance >= 0]_vars

\* C20 witness: simulate_transaction(0.3, ...) on the connected MetaMask
\* wallet of balance 0.5 succeeded: one active position of 0.3, balance 0.2
C20_Witness ==
    /\ walletCall.op = "simulate_transaction" /\ walletCall.success
    /\ walletCall.wallet_type = "MetaMask" /\ walletCall.amount = 3000
    /\ Len(positions) = 1
    /\ positions[1].status = "active" /\ positions[1].amount_invested = 3000
    /\ wallets["MetaMask"].connected /\ wallets["MetaMask"].balance = 2000

====
